---- MODULE Spec2Model ----
(***************************************************************************)
(* Model of src/index.js: the Express routes that take an upload           *)
(* (POST /register/user, /users/update, /games, /games/update) and         *)
(* DELETE /games/:id, over the User and Games tables and the remote image  *)
(* store.  Every request is a process whose steps are the stretches of     *)
(* handler code between two awaits; the database executes one statement    *)
(* at a time.                                                              *)
(***************************************************************************)
EXTENDS Integers, Sequences, FiniteSets, TLC

\* Number of requests a behaviour receives (request ids are 1..MaxReq).
MaxReq == 2

(***************************************************************************)
(* JavaScript values: undefined, null, strings and numbers are kept apart, *)
(* so that the number 0 (JSON body) and the string "0" (multipart body)    *)
(* differ in truthiness as they do in the code.                            *)
(***************************************************************************)
Undef == <<"undefined">>
Null == <<"null">>
Str(s) == <<"string", s>>
Num(n) == <<"number", n>>
\* secure_url of the n-th object the remote store holds in a folder
Url(folder, n) == <<"url", folder, n>>

\* ToBoolean: what `!x` and `x || y` test
Truthy(v) == v \notin {Undef, Null, Str(""), Num(0)}

\* a || b
Or(a, b) == IF Truthy(a) THEN a ELSE b

\* a ?? b
Coalesce(a, b) == IF a \in {Undef, Null} THEN b ELSE a

\* a placeholder value bound by pool.query: undefined is sent as NULL
Bind(v) == IF v = Undef THEN Null ELSE v

\* WHERE id = ? : the column value a request's id parameter selects
ToId(v) ==
  IF v[1] = "number" THEN v[2] ELSE CHOOSE n \in 0..9 : ToString(n) = v[2]

(***************************************************************************)
(* Uploaded files and the multer middleware                                *)
(***************************************************************************)
\* mutant: a limit of 100MB
FileSizeLimitMutant == 100 * 1024 * 1024

FileSizeLimit == 10 * 1024 * 1024

NoFile == [present |-> FALSE, size |-> 0, mimetype |-> "", decodable |-> FALSE]

File(size, mimetype, decodable) ==
  [present |-> TRUE, size |-> size, mimetype |-> mimetype, decodable |-> decodable]

\* upload.single(...): "ok" calls the route handler, anything else is
\* next(err), which skips the handler.
Multer(file) ==
  IF ~file.present THEN "ok"
  ELSE IF file.mimetype \notin {"image/jpeg", "image/png", "image/webp"} THEN "FILE_FILTER"
  ELSE IF file.size > FileSizeLimit THEN "LIMIT_FILE_SIZE"
  ELSE "ok"

\* Express's final handler answers an error that has no status with 500.
ExpressErrorStatus == 500

\* req.file.size > 10 * 1024 * 1024 inside the handlers
HandlerTooLarge(file) == file.size > FileSizeLimit

(***************************************************************************)
(* State                                                                   *)
(***************************************************************************)
VARIABLES
  User,        \* table `User`: uid -> row
  Games,       \* table `Games`: game_id -> row
  nextUid,     \* AUTO_INCREMENT of User.uid
  nextGameId,  \* AUTO_INCREMENT of Games.game_id
  referenced,  \* game ids some other table holds a foreign key to
  remote,      \* secure_urls of the objects the remote image store holds
  reqs         \* request id -> the request's inputs, position and locals

vars == <<User, Games, nextUid, nextGameId, referenced, remote, reqs>>
tables == <<User, Games, nextUid, nextGameId, referenced>>

Reqs == 1..MaxReq

NoRow == [none |-> TRUE]

\* req.body / req.params with every field the routes read
EmptyBody ==
  [email |-> Undef, username |-> Undef, password |-> Undef, uid |-> Undef,
   game_id |-> Undef, name |-> Undef, description |-> Undef, price |-> Undef,
   category_id |-> Undef, id |-> Undef]

\* A request not yet received.  ops lists the I/O calls the request has made,
\* err is the exception its catch block got, affected is affectedRows.
Idle ==
  [pc |-> "idle", route |-> "none", body |-> EmptyBody, file |-> NoFile,
   old |-> NoRow, url |-> Null, status |-> 0, err |-> "none", ops |-> <<>>,
   affected |-> -1, resp |-> NoRow]

Init ==
  /\ User = (1 :> [username |-> Str("alice"), email |-> Str("a@b.com"),
                   password |-> Str("p1"), imagepro |-> Url("avatars", 1),
                   role |-> Str("user")])
  /\ Games = (1 :> [name |-> Str("Doom"), description |-> Str("classic"),
                    price |-> Num(10), category_id |-> Num(1),
                    image_url |-> Url("games", 1)])
          @@ (2 :> [name |-> Str("Myst"), description |-> Null,
                    price |-> Num(20), category_id |-> Num(1),
                    image_url |-> Url("games", 2)])
  /\ nextUid = 2
  /\ nextGameId = 3
  /\ referenced = {1}
  /\ remote = {Url("avatars", 1), Url("games", 1), Url("games", 2)}
  /\ reqs = [r \in Reqs |-> Idle]

(***************************************************************************)
(* Responses and catch blocks                                              *)
(***************************************************************************)
\* res.status(status).json(...): the request is over
Done(q, status) == [q EXCEPT !.pc = "done", !.status = status]

\* mutant: no ER_DUP_ENTRY branch
RegisterCatchNoDuplicate(err) == IF err = "LIMIT_FILE_SIZE" THEN 413 ELSE 500

\* catch of POST /register/user
RegisterCatch(err) ==
  IF err = "LIMIT_FILE_SIZE" THEN 413
  ELSE IF err = "ER_DUP_ENTRY" THEN 400
  ELSE 500

\* catch of POST /users/update
UserUpdateCatch(err) == 500

\* mutant: every other failure is answered as a bad request
GameCreateCatchBadRequest(err) == IF err = "LIMIT_FILE_SIZE" THEN 413 ELSE 400

\* catch of POST /games
GameCreateCatch(err) == IF err = "LIMIT_FILE_SIZE" THEN 413 ELSE 500

\* catch of POST /games/update
GameUpdateCatch(err) == 500

\* mutant: no ER_ROW_IS_REFERENCED_2 branch
DeleteCatchNoReference(err) == 500

\* catch of DELETE /games/:id
DeleteCatch(err) == IF err = "ER_ROW_IS_REFERENCED_2" THEN 400 ELSE 500

\* an await throws err: the route's catch block answers
Catch(q, err) ==
  LET status == CASE q.route = "register" -> RegisterCatch(err)
                  [] q.route = "users_update" -> UserUpdateCatch(err)
                  [] q.route = "games_create" -> GameCreateCatch(err)
                  [] q.route = "games_update" -> GameUpdateCatch(err)
                  [] OTHER -> DeleteCatch(err)
  IN  [Done(q, status) EXCEPT !.err = err]

\* next(err) from the middleware: no handler, no catch block
Rejected(q, err) == [Done(q, ExpressErrorStatus) EXCEPT !.err = err]

\* the request makes the I/O call op
Call(q, op) == [q EXCEPT !.ops = Append(@, op)]

\* a new request with its inputs
Arrived(route, body, file) ==
  [Idle EXCEPT !.route = route, !.body = body, !.file = file]

\* request ids are given in order of arrival
CanReceive(r) ==
  /\ reqs[r].pc = "idle"
  /\ IF r = 1 THEN TRUE ELSE reqs[r - 1].pc # "idle"

(***************************************************************************)
(* The image pipeline, shared by the four upload routes                    *)
(***************************************************************************)
\* mutant: the folder argument left to its default
FolderDefault(route) == "avatars"

\* folder argument the route passes to uploadBufferToCloudinary
Folder(route) ==
  IF route \in {"register", "users_update"} THEN "avatars" ELSE "games"

\* the statement that follows the upload in the route
AfterStore(route) ==
  IF route \in {"register", "games_create"} THEN "insert" ELSE "update"

\* secure_url of a new object: every upload makes a new one
NewUrl(folder) ==
  Url(folder, 1 + Cardinality({u \in remote : u[2] = folder}))

\* await processImageToWebpSquare(req.file.buffer)
Normalize(r) ==
  /\ reqs[r].pc = "normalize"
  /\ LET q == Call(reqs[r], "normalize") IN
       reqs' = [reqs EXCEPT ![r] =
                  IF q.file.decodable THEN [q EXCEPT !.pc = "store"]
                  ELSE Catch(q, "ImageDecodeError")]
  /\ UNCHANGED <<tables, remote>>

\* await uploadBufferToCloudinary(processed, folder) resolves
StoreOk(r) ==
  /\ reqs[r].pc = "store"
  /\ LET q == Call(reqs[r], "store")
         u == NewUrl(Folder(q.route))
     IN  /\ remote' = remote \cup {u}
         /\ reqs' = [reqs EXCEPT ![r] =
                       [q EXCEPT !.url = u, !.pc = AfterStore(q.route)]]
  /\ UNCHANGED tables

\* await uploadBufferToCloudinary(processed, folder) rejects
StoreFail(r) ==
  /\ reqs[r].pc = "store"
  /\ reqs' = [reqs EXCEPT ![r] = Catch(Call(reqs[r], "store"), "RemoteStoreError")]
  /\ UNCHANGED <<tables, remote>>

(***************************************************************************)
(* POST /register/user                                                     *)
(***************************************************************************)
\* the handler up to its first await
RegisterHandler(q) ==
  IF ~Truthy(q.body.email) \/ ~Truthy(q.body.username) \/ ~Truthy(q.body.password)
    THEN Done(q, 400)
  ELSE IF q.file.present /\ HandlerTooLarge(q.file) THEN Done(q, 413)
  ELSE IF q.file.present THEN [q EXCEPT !.pc = "normalize"]
  ELSE [q EXCEPT !.pc = "insert"]

RegisterReceive(r, body, file) ==
  /\ CanReceive(r)
  /\ LET q == Arrived("register", body, file) IN
       reqs' = [reqs EXCEPT ![r] =
                  IF Multer(file) # "ok" THEN Rejected(q, Multer(file))
                  ELSE RegisterHandler(q)]
  /\ UNCHANGED <<tables, remote>>

\* the UNIQUE key of `User` the handler's ER_DUP_ENTRY branch answers for
DupEntry(table, body) == \E u \in DOMAIN table : table[u].email = body.email

\* INSERT INTO `User` ... and the response
RegisterInsert(r) ==
  /\ reqs[r].pc = "insert"
  /\ reqs[r].route = "register"
  /\ LET q == Call(reqs[r], "insert") IN
       IF DupEntry(User, q.body)
         THEN /\ reqs' = [reqs EXCEPT ![r] = Catch(q, "ER_DUP_ENTRY")]
              /\ UNCHANGED <<User, nextUid>>
         ELSE /\ User' = User @@
                   (nextUid :> [username |-> Bind(q.body.username),
                                email |-> Bind(q.body.email),
                                password |-> Bind(q.body.password),
                                imagepro |-> Bind(q.url),
                                role |-> Str("user")])
              /\ nextUid' = nextUid + 1
              /\ reqs' = [reqs EXCEPT ![r] =
                   [Done(q, 201) EXCEPT !.affected = 1,
                      !.resp = [uid |-> nextUid, imagepro |-> q.url]]]
  /\ UNCHANGED <<Games, nextGameId, referenced, remote>>

(***************************************************************************)
(* POST /users/update                                                      *)
(***************************************************************************)
UserUpdateReceive(r, body, file) ==
  /\ CanReceive(r)
  /\ LET q == Arrived("users_update", body, file) IN
       reqs' = [reqs EXCEPT ![r] =
                  IF Multer(file) # "ok" THEN Rejected(q, Multer(file))
                  ELSE IF ~Truthy(q.body.uid) THEN Done(q, 400)
                  ELSE [q EXCEPT !.pc = "select"]]
  /\ UNCHANGED <<tables, remote>>

\* after the SELECT: the avatar branch, up to the next await
AvatarBranch(q) ==
  IF q.file.present
    THEN IF HandlerTooLarge(q.file) THEN Done(q, 413)
         ELSE [q EXCEPT !.pc = "normalize"]
    ELSE [q EXCEPT !.pc = "update"]

\* SELECT * FROM `User` WHERE uid = ?
UserSelect(r) ==
  /\ reqs[r].pc = "select"
  /\ reqs[r].route = "users_update"
  /\ LET q == Call(reqs[r], "select")
         uid == ToId(q.body.uid)
     IN  reqs' = [reqs EXCEPT ![r] =
                    IF uid \notin DOMAIN User THEN Done(q, 404)
                    ELSE AvatarBranch([q EXCEPT !.old = User[uid],
                                                !.url = User[uid].imagepro])]
  /\ UNCHANGED <<tables, remote>>

\* mutant: username without its fallback
MergeUserNoFallback(old, body, url) ==
  [username |-> body.username, imagepro |-> url]

\* newUser
MergeUser(old, body, url) ==
  [username |-> Or(body.username, old.username), imagepro |-> url]

\* mutant: affectedRows not looked at
UpdateStatusAlwaysOk(affectedRows) == 200

\* if (rs.affectedRows === 0) return 404, else 200
UpdateStatus(affectedRows) == IF affectedRows = 0 THEN 404 ELSE 200

\* UPDATE `User` SET username = ?, imagepro = ? WHERE uid = ? and the response
UserUpdate(r) ==
  /\ reqs[r].pc = "update"
  /\ reqs[r].route = "users_update"
  /\ LET q == Call(reqs[r], "update")
         uid == ToId(q.body.uid)
         newUser == MergeUser(q.old, q.body, q.url)
         affectedRows == IF uid \in DOMAIN User THEN 1 ELSE 0
     IN  /\ User' = IF uid \in DOMAIN User
                      THEN [User EXCEPT ![uid].username = Bind(newUser.username),
                                        ![uid].imagepro = Bind(newUser.imagepro)]
                      ELSE User
         /\ reqs' = [reqs EXCEPT ![r] =
              [Done(q, UpdateStatus(affectedRows)) EXCEPT
                 !.affected = affectedRows,
                 !.resp = IF UpdateStatus(affectedRows) = 200 THEN newUser ELSE NoRow]]
  /\ UNCHANGED <<Games, nextUid, nextGameId, referenced, remote>>

(***************************************************************************)
(* POST /games                                                             *)
(***************************************************************************)
\* the handler up to its first await
GameCreateHandler(q) ==
  IF ~Truthy(q.body.name) \/ ~Truthy(q.body.price) \/ ~Truthy(q.body.category_id)
    THEN Done(q, 400)
  ELSE IF ~q.file.present THEN Done(q, 400)
  ELSE IF HandlerTooLarge(q.file) THEN Done(q, 413)
  ELSE [q EXCEPT !.pc = "normalize"]

GameCreateReceive(r, body, file) ==
  /\ CanReceive(r)
  /\ LET q == Arrived("games_create", body, file) IN
       reqs' = [reqs EXCEPT ![r] =
                  IF Multer(file) # "ok" THEN Rejected(q, Multer(file))
                  ELSE GameCreateHandler(q)]
  /\ UNCHANGED <<tables, remote>>

\* INSERT INTO `Games` ... and the response
GameInsert(r) ==
  /\ reqs[r].pc = "insert"
  /\ reqs[r].route = "games_create"
  /\ LET q == Call(reqs[r], "insert") IN
       /\ Games' = Games @@
            (nextGameId :> [name |-> Bind(q.body.name),
                            description |-> Bind(Or(q.body.description, Null)),
                            price |-> Bind(q.body.price),
                            category_id |-> Bind(q.body.category_id),
                            image_url |-> Bind(q.url)])
       /\ nextGameId' = nextGameId + 1
       /\ reqs' = [reqs EXCEPT ![r] =
            [Done(q, 201) EXCEPT !.affected = 1,
               !.resp = [game_id |-> nextGameId, image_url |-> q.url]]]
  /\ UNCHANGED <<User, nextUid, referenced, remote>>

(***************************************************************************)
(* POST /games/update                                                      *)
(***************************************************************************)
GameUpdateReceive(r, body, file) ==
  /\ CanReceive(r)
  /\ LET q == Arrived("games_update", body, file) IN
       reqs' = [reqs EXCEPT ![r] =
                  IF Multer(file) # "ok" THEN Rejected(q, Multer(file))
                  ELSE IF ~Truthy(q.body.game_id) THEN Done(q, 400)
                  ELSE [q EXCEPT !.pc = "select"]]
  /\ UNCHANGED <<tables, remote>>

\* after the SELECT: the image branch, up to the next await
ImageBranch(q) ==
  IF q.file.present
    THEN IF HandlerTooLarge(q.file) THEN Done(q, 413)
         ELSE [q EXCEPT !.pc = "normalize"]
    ELSE [q EXCEPT !.pc = "update"]

\* SELECT * FROM `Games` WHERE game_id = ?
GameSelect(r) ==
  /\ reqs[r].pc = "select"
  /\ reqs[r].route = "games_update"
  /\ LET q == Call(reqs[r], "select")
         gid == ToId(q.body.game_id)
     IN  reqs' = [reqs EXCEPT ![r] =
                    IF gid \notin DOMAIN Games THEN Done(q, 404)
                    ELSE ImageBranch([q EXCEPT !.old = Games[gid],
                                               !.url = Games[gid].image_url])]
  /\ UNCHANGED <<tables, remote>>

\* mutant: description without its fallback
MergeGameNoDescriptionFallback(old, body, url) ==
  [name |-> Or(body.name, old.name),
   description |-> body.description,
   price |-> Or(body.price, old.price),
   category_id |-> Or(body.category_id, old.category_id),
   image_url |-> url]

\* mutant: price merged with ?? like description
MergeGameCoalescePrice(old, body, url) ==
  [name |-> Or(body.name, old.name),
   description |-> Coalesce(body.description, old.description),
   price |-> Coalesce(body.price, old.price),
   category_id |-> Or(body.category_id, old.category_id),
   image_url |-> url]

\* updatedGame
MergeGame(old, body, url) ==
  [name |-> Or(body.name, old.name),
   description |-> Coalesce(body.description, old.description),
   price |-> Or(body.price, old.price),
   category_id |-> Or(body.category_id, old.category_id),
   image_url |-> url]

\* the row UPDATE `Games` SET ... writes from its five placeholders
BoundGame(g) ==
  [name |-> Bind(g.name), description |-> Bind(g.description),
   price |-> Bind(g.price), category_id |-> Bind(g.category_id),
   image_url |-> Bind(g.image_url)]

\* UPDATE `Games` SET ... WHERE game_id = ? and the response
GameUpdate(r) ==
  /\ reqs[r].pc = "update"
  /\ reqs[r].route = "games_update"
  /\ LET q == Call(reqs[r], "update")
         gid == ToId(q.body.game_id)
         updatedGame == MergeGame(q.old, q.body, q.url)
         affectedRows == IF gid \in DOMAIN Games THEN 1 ELSE 0
     IN  /\ Games' = IF gid \in DOMAIN Games
                       THEN [Games EXCEPT ![gid] = BoundGame(updatedGame)]
                       ELSE Games
         /\ reqs' = [reqs EXCEPT ![r] =
              [Done(q, UpdateStatus(affectedRows)) EXCEPT
                 !.affected = affectedRows,
                 !.resp = IF UpdateStatus(affectedRows) = 200
                            THEN updatedGame ELSE NoRow]]
  /\ UNCHANGED <<User, nextUid, nextGameId, referenced, remote>>

(***************************************************************************)
(* DELETE /games/:id                                                       *)
(***************************************************************************)
DeleteReceive(r, id) ==
  /\ CanReceive(r)
  /\ reqs' = [reqs EXCEPT ![r] =
       [Arrived("games_delete", [EmptyBody EXCEPT !.id = id], NoFile)
          EXCEPT !.pc = "delete"]]
  /\ UNCHANGED <<tables, remote>>

\* if (result.affectedRows === 0) return 404, else 200
DeleteStatus(affectedRows) == IF affectedRows = 0 THEN 404 ELSE 200

\* DELETE FROM `Games` WHERE game_id = ? and the response
DeleteExec(r) ==
  /\ reqs[r].pc = "delete"
  /\ LET q == Call(reqs[r], "delete")
         gid == ToId(q.body.id)
         affectedRows == IF gid \in DOMAIN Games THEN 1 ELSE 0
     IN  IF gid \in DOMAIN Games /\ gid \in referenced
           THEN /\ reqs' = [reqs EXCEPT ![r] = Catch(q, "ER_ROW_IS_REFERENCED_2")]
                /\ UNCHANGED Games
           ELSE /\ Games' = [g \in DOMAIN Games \ {gid} |-> Games[g]]
                /\ reqs' = [reqs EXCEPT ![r] =
                     [Done(q, DeleteStatus(affectedRows)) EXCEPT
                        !.affected = affectedRows]]
  /\ UNCHANGED <<User, nextUid, nextGameId, referenced, remote>>

(***************************************************************************)
(* Inputs and the next-state relation                                      *)
(***************************************************************************)
\* an image of exactly 10MB, a truncated image, an image of 10MB + 1 byte,
\* and a file that is no image
GoodFile == File(10485760, "image/png", TRUE)
CorruptFile == File(2048, "image/jpeg", FALSE)
OversizeFile == File(10485761, "image/webp", TRUE)
TextFile == File(100, "text/plain", FALSE)
Files == {NoFile, GoodFile, CorruptFile, OversizeFile, TextFile}

(***************************************************************************)
(* Spec: the four upload routes, one body each, every kind of file         *)
(***************************************************************************)
NewUser ==
  [EmptyBody EXCEPT !.email = Str("c@d.com"), !.username = Str("bob"),
                    !.password = Str("p2")]
DupUser ==
  [EmptyBody EXCEPT !.email = Str("a@b.com"), !.username = Str("carol"),
                    !.password = Str("p3")]
NoPassword ==
  [EmptyBody EXCEPT !.email = Str("e@f.com"), !.username = Str("dave")]
OnlyUid == [EmptyBody EXCEPT !.uid = Str("1")]
NewGame ==
  [EmptyBody EXCEPT !.name = Str("Quake"), !.price = Str("30"),
                    !.category_id = Str("2"), !.description = Str("fps")]
OnlyGameId == [EmptyBody EXCEPT !.game_id = Str("2")]
NoSuchUid == [EmptyBody EXCEPT !.uid = Str("7")]
NoSuchGameId == [EmptyBody EXCEPT !.game_id = Str("9")]

RegisterInputs ==
  ({NewUser} \X Files) \cup {<<DupUser, NoFile>>, <<DupUser, GoodFile>>,
                               <<NoPassword, NoFile>>}
UserUpdateUploads == ({OnlyUid} \X Files) \cup {<<NoSuchUid, NoFile>>}
GameUpdateUploads == ({OnlyGameId} \X Files) \cup {<<NoSuchGameId, NoFile>>}
DeleteIds == {Str("1"), Str("2"), Str("9")}

Next ==
  \E r \in Reqs :
    \/ \E i \in RegisterInputs : RegisterReceive(r, i[1], i[2])
    \/ \E i \in UserUpdateUploads : UserUpdateReceive(r, i[1], i[2])
    \/ \E f \in Files : GameCreateReceive(r, NewGame, f)
    \/ \E i \in GameUpdateUploads : GameUpdateReceive(r, i[1], i[2])
    \/ \E i \in DeleteIds : DeleteReceive(r, i)
    \/ Normalize(r)
    \/ StoreOk(r)
    \/ StoreFail(r)
    \/ RegisterInsert(r)
    \/ UserSelect(r)
    \/ UserUpdate(r)
    \/ GameInsert(r)
    \/ GameSelect(r)
    \/ GameUpdate(r)
    \/ DeleteExec(r)

Spec == Init /\ [][Next]_vars

(***************************************************************************)
(* SpecMerge: the two update routes with every kind of patch               *)
(***************************************************************************)
\* the fields of a /games/update body other than game_id
GamePatches ==
  {EmptyBody,
   [EmptyBody EXCEPT !.name = Str("Hexen")],
   [EmptyBody EXCEPT !.name = Str("")],
   [EmptyBody EXCEPT !.price = Num(5)],
   [EmptyBody EXCEPT !.price = Num(0)],
   [EmptyBody EXCEPT !.price = Str("0")],
   [EmptyBody EXCEPT !.description = Str("")],
   [EmptyBody EXCEPT !.description = Null],
   [EmptyBody EXCEPT !.description = Str("remake")],
   [EmptyBody EXCEPT !.category_id = Num(2)],
   [EmptyBody EXCEPT !.name = Str("Hexen"), !.price = Num(5),
                     !.description = Str("remake"), !.category_id = Num(2)]}

GameUpdateInputs ==
  {<<[p EXCEPT !.game_id = Str("2")], NoFile>> : p \in GamePatches}
    \cup {<<OnlyGameId, GoodFile>>, <<NoSuchGameId, NoFile>>,
          <<[EmptyBody EXCEPT !.game_id = Num(0)], NoFile>>}

UserUpdateInputs ==
  {<<[EmptyBody EXCEPT !.uid = Str("1"), !.username = u], NoFile>> :
     u \in {Undef, Str(""), Str("bob")}}
    \cup {<<OnlyUid, GoodFile>>, <<EmptyBody, NoFile>>}

NextMerge ==
  \E r \in Reqs :
    \/ \E i \in UserUpdateInputs : UserUpdateReceive(r, i[1], i[2])
    \/ \E i \in GameUpdateInputs : GameUpdateReceive(r, i[1], i[2])
    \/ Normalize(r)
    \/ StoreOk(r)
    \/ StoreFail(r)
    \/ UserSelect(r)
    \/ UserUpdate(r)
    \/ GameSelect(r)
    \/ GameUpdate(r)

SpecMerge == Init /\ [][NextMerge]_vars

(***************************************************************************)
(* Properties                                                              *)
(***************************************************************************)
UploadRoutes == {"register", "users_update", "games_create", "games_update"}
UpdateRoutes == {"users_update", "games_update"}

\* the request carries a file of more than 10MB
Oversize(q) == q.file.present /\ q.file.size > 10 * 1024 * 1024

\* the request has made one of the I/O calls in kinds
Performed(q, kinds) == \E i \in DOMAIN q.ops : q.ops[i] \in kinds

\* request r takes a step
Steps(r) == reqs'[r] # reqs[r]

\* C1: on each of the four upload routes a request whose file is larger than
\* 10MB is over as soon as it is received, having made no normalize call, no
\* remote upload and no INSERT/UPDATE, and the step that receives it leaves
\* the remote objects and the User and Games rows as they were.
C1_OversizeRejectedFirst ==
  [][\A r \in Reqs :
       (Steps(r) /\ reqs'[r].route \in UploadRoutes /\ Oversize(reqs'[r])) =>
         /\ reqs'[r].pc = "done"
         /\ ~Performed(reqs'[r], {"normalize", "store", "insert", "update"})
         /\ UNCHANGED <<User, Games, remote>>]_vars

C1_Witness ==
  \E r \in Reqs :
    /\ reqs[r].route = "games_update"
    /\ Oversize(reqs[r])
    /\ reqs[r].pc = "done"

\* C2: every POST /register/user or POST /games request that carries a file
\* larger than 10MB is answered with status 413.
C2_OversizeAnswered413 ==
  \A r \in Reqs :
    (reqs[r].route \in {"register", "games_create"} /\ Oversize(reqs[r])
       /\ reqs[r].pc = "done") => reqs[r].status = 413

\* the body carries the id and nothing else, and there is no file
EmptyPatch(q) ==
  /\ ~q.file.present
  /\ q.body = IF q.route = "users_update"
                THEN [EmptyBody EXCEPT !.uid = q.body.uid]
                ELSE [EmptyBody EXCEPT !.game_id = q.body.game_id]

\* request r runs its UPDATE statement and answers
UpdateStep(r) ==
  /\ reqs[r].route \in UpdateRoutes
  /\ reqs[r].pc = "update"
  /\ reqs'[r].pc = "done"

\* the row the UPDATE of request q addresses is the same before and after
RowKept(q) ==
  IF q.route = "users_update"
    THEN User'[ToId(q.body.uid)] = User[ToId(q.body.uid)]
    ELSE Games'[ToId(q.body.game_id)] = Games[ToId(q.body.game_id)]

\* the row the UPDATE of request q addresses is still the row its SELECT read
RowAsRead(q) ==
  IF q.route = "users_update"
    THEN User[ToId(q.body.uid)] = q.old
    ELSE Games[ToId(q.body.game_id)] = q.old

\* C3 as stated: an update that carries only the id and answers 200 leaves
\* the stored row as it was right before its UPDATE, in every interleaving.
C3_EmptyPatchKeepsRowAlways ==
  [][\A r \in Reqs :
       (UpdateStep(r) /\ EmptyPatch(reqs[r]) /\ reqs'[r].status = 200) =>
         RowKept(reqs[r])]_vars

\* C3 amended: an update that carries only the id and answers 200 leaves the
\* stored row as it was right before its UPDATE whenever that row is still
\* the row the request's SELECT read.
C3_EmptyPatchKeepsRowAsRead ==
  [][\A r \in Reqs :
       (UpdateStep(r) /\ EmptyPatch(reqs[r]) /\ reqs'[r].status = 200
          /\ RowAsRead(reqs[r])) => RowKept(reqs[r])]_vars

C3_Witness ==
  \E r \in Reqs :
    /\ reqs[r].route = "games_update"
    /\ EmptyPatch(reqs[r])
    /\ reqs[r].pc = "done"
    /\ reqs[r].status = 200
    /\ Games[ToId(reqs[r].body.game_id)] = reqs[r].old

\* the table and the id an update request addresses
TableOf(q) == IF q.route = "users_update" THEN User ELSE Games
TableOfNext(q) == IF q.route = "users_update" THEN User' ELSE Games'
IdOf(q) == IF q.route = "users_update" THEN ToId(q.body.uid) ELSE ToId(q.body.game_id)

\* C4: an update request answers 200 only if its UPDATE affected exactly one
\* row (the addressed row, every other row untouched); when the row is absent
\* at the SELECT, or absent at the UPDATE because it was deleted in between,
\* the request answers 404 and the table is unchanged.
C4_OneRowOrNotFound ==
  [][\A r \in Reqs :
       LET q == reqs[r]
           T == TableOf(q)
           T2 == TableOfNext(q)
           id == IdOf(q)
       IN  /\ (q.route \in UpdateRoutes /\ q.pc = "select" /\ Steps(r)
                 /\ id \notin DOMAIN T) =>
                (reqs'[r].pc = "done" /\ reqs'[r].status = 404 /\ T2 = T)
           /\ UpdateStep(r) =>
                IF id \in DOMAIN T
                  THEN /\ reqs'[r].status = 200
                       /\ reqs'[r].affected = 1
                       /\ DOMAIN T2 = DOMAIN T
                       /\ \A k \in DOMAIN T \ {id} : T2[k] = T[k]
                  ELSE /\ reqs'[r].status = 404
                       /\ reqs'[r].affected = 0
                       /\ T2 = T]_vars

C4_Witness ==
  \E r \in Reqs :
    /\ reqs[r].route = "games_update"
    /\ reqs[r].pc = "done"
    /\ reqs[r].ops = <<"select", "update">>
    /\ reqs[r].status = 404

\* C5: on each of the four upload routes a request whose normalize step or
\* remote upload failed is answered with 500 and has made no INSERT or UPDATE.
C5_ImageFailureWritesNothing ==
  \A r \in Reqs :
    reqs[r].err \in {"ImageDecodeError", "RemoteStoreError"} =>
      /\ reqs[r].route \in UploadRoutes
      /\ reqs[r].pc = "done"
      /\ reqs[r].status = 500
      /\ ~Performed(reqs[r], {"insert", "update"})
      /\ reqs[r].affected = -1

C5_Witness ==
  \E r1, r2 \in Reqs :
    /\ reqs[r1].route = "games_create"
    /\ reqs[r1].err = "RemoteStoreError"
    /\ reqs[r2].route = "users_update"
    /\ reqs[r2].err = "ImageDecodeError"

\* C6: every User.imagepro is null or a URL the remote store returned for
\* folder "avatars", and every Games.image_url is a URL the remote store
\* returned for folder "games".
C6_StoredUrlsComeFromTheStore ==
  /\ \A u \in DOMAIN User :
       \/ User[u].imagepro = Null
       \/ User[u].imagepro \in remote /\ User[u].imagepro[2] = "avatars"
  /\ \A g \in DOMAIN Games :
       Games[g].image_url \in remote /\ Games[g].image_url[2] = "games"

C6_Witness ==
  /\ \E u \in DOMAIN User : User[u].imagepro = Url("avatars", 2)
  /\ \E g \in DOMAIN Games : Games[g].image_url = Url("games", 3)

\* request r runs its INSERT INTO `User` and answers
RegisterStep(r) ==
  /\ reqs[r].route = "register"
  /\ reqs[r].pc = "insert"
  /\ reqs'[r].pc = "done"

GameUpdateOk(r) ==
  /\ UpdateStep(r)
  /\ reqs[r].route = "games_update"
  /\ reqs'[r].status = 200

\* what the claim lets a truthy-fallback field and the description become
TruthyElseStored(patch, stored) ==
  IF patch \in {Undef, Null, Str(""), Num(0)} THEN stored ELSE patch
GivenElseStored(patch, stored) ==
  IF patch \in {Undef, Null} THEN stored ELSE patch

\* C8: a successful POST /games/update writes, for name, price and
\* category_id, the patch value when it is truthy and otherwise the value its
\* SELECT read, and for description the patch value unless that is null or
\* undefined; the five fields, image_url included, are written by the one
\* UPDATE statement the request makes, and no other row changes.
C8_MergeRule ==
  [][\A r \in Reqs :
       GameUpdateOk(r) =>
         LET q == reqs[r]
             gid == ToId(q.body.game_id)
             row == Games'[gid]
         IN  /\ row.name = TruthyElseStored(q.body.name, q.old.name)
             /\ row.price = TruthyElseStored(q.body.price, q.old.price)
             /\ row.category_id =
                  TruthyElseStored(q.body.category_id, q.old.category_id)
             /\ row.description =
                  GivenElseStored(q.body.description, q.old.description)
             /\ row.image_url = q.url
             /\ Cardinality({i \in DOMAIN reqs'[r].ops :
                               reqs'[r].ops[i] = "update"}) = 1
             /\ \A g \in DOMAIN Games \ {gid} : Games'[g] = Games[g]]_vars

C8_Witness ==
  \E r1, r2 \in Reqs :
    /\ reqs[r1].route = "games_update" /\ reqs[r1].status = 200
    /\ reqs[r1].body.price = Num(0)
    /\ reqs[r1].resp.price = reqs[r1].old.price
    /\ reqs[r2].route = "games_update" /\ reqs[r2].status = 200
    /\ reqs[r2].body.description = Str("")
    /\ reqs[r2].old.description # Str("")
    /\ Games[2].description = Str("")
    /\ Games[2].price = Num(20)

\* request r runs its DELETE statement and answers
DeleteStep(r) ==
  /\ reqs[r].route = "games_delete"
  /\ reqs[r].pc = "delete"
  /\ reqs'[r].pc = "done"

\* C9: DELETE /games/:id on a game another table references is answered with
\* 400 and leaves the row in place; on an id with no row it is answered with
\* 404 and changes nothing; otherwise it is answered with 200 and exactly
\* that one row is removed.
C9_DeleteOutcomes ==
  [][\A r \in Reqs :
       DeleteStep(r) =>
         LET gid == ToId(reqs[r].body.id) IN
           IF gid \notin DOMAIN Games
             THEN reqs'[r].status = 404 /\ Games' = Games
           ELSE IF gid \in referenced
             THEN reqs'[r].status = 400 /\ Games' = Games
           ELSE /\ reqs'[r].status = 200
                /\ DOMAIN Games' = DOMAIN Games \ {gid}
                /\ \A g \in DOMAIN Games' : Games'[g] = Games[g]]_vars

C9_Witness ==
  \E r1, r2 \in Reqs :
    /\ reqs[r1].route = "games_delete" /\ reqs[r1].status = 400
    /\ 1 \in DOMAIN Games
    /\ reqs[r2].route = "games_delete" /\ reqs[r2].status = 200
    /\ 2 \notin DOMAIN Games

\* the body of q gives no value for field f of the row
Unpatched(q, f) ==
  IF f = "description" THEN q.body[f] \in {Undef, Null}
  ELSE IF f = "image_url" \/ f = "imagepro" THEN ~q.file.present
  ELSE IF f \in DOMAIN q.body THEN ~Truthy(q.body[f])
  ELSE TRUE

\* C10: the UPDATE of an update request that finds its row stores, in every
\* field its patch does not set, the value its own SELECT read, whatever the
\* row holds by then: the last writer wins over a change made in between.
C10_LastWriterWritesItsRead ==
  [][\A r \in Reqs :
       (UpdateStep(r) /\ reqs'[r].status = 200) =>
         LET q == reqs[r]
             row == TableOfNext(q)[IdOf(q)]
         IN  \A f \in DOMAIN row :
               Unpatched(q, f) => row[f] = q.old[f]]_vars

\* two concurrent updates of game 2, one of the name and one of the price,
\* both answered 200: the row has the price but has lost the name
C10_Witness ==
  \E r1, r2 \in Reqs :
    /\ reqs[r1].route = "games_update" /\ reqs[r1].status = 200
    /\ reqs[r1].body = [EmptyBody EXCEPT !.game_id = Str("2"), !.name = Str("Hexen")]
    /\ reqs[r1].resp.name = Str("Hexen")
    /\ reqs[r2].route = "games_update" /\ reqs[r2].status = 200
    /\ reqs[r2].body = [EmptyBody EXCEPT !.game_id = Str("2"), !.price = Num(5)]
    /\ Games[2].price = Num(5)
    /\ Games[2].name = reqs[r2].old.name
    /\ Games[2].name # Str("Hexen")

====
